---- MODULE Spec2Model ----
(***************************************************************************)
(* A model of the compositional core of gemini-engine:                     *)
(*   - elements/containers.rs: VisibilityToggle, PixelContainer,           *)
(*     CollisionContainer and the ViewElement capability they implement;   *)
(*   - elements/view/pixel/colchar/mod.rs: the neighbour-aware emission of *)
(*     one ColChar (display_with_prev_and_next, write_with_prev_and_next); *)
(*   - elements3d/view3d/transform3d/mod.rs: Transform3D::apply_to and the *)
(*     Mul operators.                                                      *)
(* The five parts share no state, so each has its own specification        *)
(* (SpecPixel, SpecToggle, SpecCollision, SpecEmit, SpecTransform); the    *)
(* variables of the other parts stay at their initial values.              *)
(***************************************************************************)
EXTENDS Integers, Sequences, FiniteSets

VARIABLES
    pixels,     \* PixelContainer.pixels
    source,     \* the caller's Vec<Point> handed to append as &mut
    opLog,      \* history: the mutating calls made on the container, with arguments
    appended,   \* history: the receiver and the argument as they were before the last append
    queried,    \* history: the result of active_pixels() on the container, if called since it last changed
    tElement,   \* VisibilityToggle.element
    tVisible,   \* VisibilityToggle.visible
    tHist,      \* history: the values the flag has had, oldest first
    tQuery,     \* history: the last active_pixels() on the toggle
    cElements,  \* CollisionContainer.elements
    cCall,      \* history: the last overlap query, its arguments and its result
    line,       \* the cells of the line being rendered
    fIdx,       \* cells emitted so far through display_with_prev_and_next
    fCalls,     \* what each display_with_prev_and_next call handed to write!
    fOut,       \* the Formatter's output so far
    oIdx,       \* cells emitted so far through write_with_prev_and_next
    oCalls,     \* what each write_with_prev_and_next call handed to write!
    oOut,       \* the String o so far
    trCall      \* history: the Transform3D call made, its arguments and its result

pixelVars     == <<pixels, source, opLog, appended, queried>>
toggleVars    == <<tElement, tVisible, tHist, tQuery>>
collisionVars == <<cElements, cCall>>
emitVars      == <<line, fIdx, fCalls, fOut, oIdx, oCalls, oOut>>
transformVars == <<trCall>>
vars == <<pixelVars, toggleVars, collisionVars, emitVars, transformVars>>

\* What an action of one part leaves alone: the variables of the other parts.
otherPixelVars == <<toggleVars, collisionVars, emitVars, transformVars>>
otherToggleVars == <<pixelVars, collisionVars, emitVars, transformVars>>
otherCollisionVars == <<pixelVars, toggleVars, emitVars, transformVars>>
otherEmitVars == <<pixelVars, toggleVars, collisionVars, transformVars>>
otherTransformVars == <<pixelVars, toggleVars, collisionVars, emitVars>>

(***************************************************************************)
(* Bounds of the model.                                                    *)
(***************************************************************************)
MaxOps == 3        \* mutating calls made on the PixelContainer
MaxToggles == 3    \* assignments to VisibilityToggle.visible
MaxWrapped == 2    \* points of a PixelContainer wrapped by the toggle
MaxPushed == 2     \* elements pushed into the CollisionContainer
MaxLine == 3       \* cells of a rendered line
MaxVerts == 2      \* vertices of a batch handed to apply_to

(***************************************************************************)
(* Values.                                                                 *)
(***************************************************************************)
\* Modifier: None, the reset code END, and two colours.
ModNone == "None"
ModEND  == "END"
ModifierSet == {ModNone, ModEND, "Red", "Blue"}

ColCharNew(text_char, modifier) == [text_char |-> text_char, modifier |-> modifier]

ColCharSet == {ColCharNew("a", ModNone), ColCharNew("b", "Red")}

Vec2DSet == {<<0, 0>>, <<1, 0>>}

PointNew(pos, c) == [pos |-> pos, fill_char |-> c]

P1 == PointNew(<<0, 0>>, ColCharNew("a", ModNone))
P2 == PointNew(<<1, 0>>, ColCharNew("b", "Red"))
P3 == PointNew(<<1, 0>>, ColCharNew("a", ModNone))
PointSet == {P1, P2, P3}

\* The Vec<Point> values a caller builds.
VecSet == {<< >>, <<P1>>, <<P2, P1>>, <<P3, P3, P2>>}

(***************************************************************************)
(* ViewElement values and active_pixels, by concrete type.                 *)
(***************************************************************************)
PixelContainerOf(ps) == [kind |-> "PixelContainer", pixels |-> ps]
VisibilityToggleNew(element, visible) ==
    [kind |-> "VisibilityToggle", element |-> element, visible |-> visible]
CollisionContainerOf(elements) == [kind |-> "CollisionContainer", elements |-> elements]

RECURSIVE ActivePixels(_)
RECURSIVE FlatMapActive(_)

\* A mutant: the toggle answers with its element whatever the flag is.
ToggleActiveIgnoringFlag(e) == ActivePixels(e.element)

\* <VisibilityToggle as ViewElement>::active_pixels
ToggleActive(e) == IF e.visible THEN ActivePixels(e.element) ELSE << >>

\* <PixelContainer as ViewElement>::active_pixels
PixelActive(e) == e.pixels

\* <CollisionContainer as ViewElement>::active_pixels
CollisionActive(e) == FlatMapActive(e.elements)

FlatMapActive(es) ==
    IF es = << >> THEN << >> ELSE ActivePixels(Head(es)) \o FlatMapActive(Tail(es))

ActivePixels(e) ==
    CASE e.kind = "PixelContainer"     -> PixelActive(e)
      [] e.kind = "VisibilityToggle"   -> ToggleActive(e)
      [] e.kind = "CollisionContainer" -> CollisionActive(e)

\* The elements a caller blits, wraps or tests.
ElementSet ==
    { PixelContainerOf(<< >>),
      PixelContainerOf(<<P1>>),
      PixelContainerOf(<<P2, P3>>),
      VisibilityToggleNew(PixelContainerOf(<<P3, P1>>), TRUE),
      VisibilityToggleNew(PixelContainerOf(<<P2>>), FALSE),
      CollisionContainerOf(<<PixelContainerOf(<<P1>>),
                             VisibilityToggleNew(PixelContainerOf(<<P2>>), TRUE)>>) }

(***************************************************************************)
(* PixelContainer.                                                         *)
(***************************************************************************)
\* A mutant: the moved points are put in front of the stored ones.
VecAppendInFront(self, other) == [self |-> other \o self, other |-> << >>]

\* A mutant: the points are copied and the source keeps them.
VecAppendCopying(self, other) == [self |-> self \o other, other |-> other]

\* Vec::append as PixelContainer::append uses it: the receiver and the
\* argument after the call.
VecAppend(self, other) == [self |-> self \o other, other |-> << >>]

\* A mutant: the pushed point is put in front of the stored ones.
VecPushInFront(self, pixel) == <<pixel>> \o self

\* Vec::push
VecPush(self, pixel) == Append(self, pixel)

\* utils::points_to_pixels: one point per position, all with fill_char
PointsToPixels(points, fill_char) ==
    [i \in 1..Len(points) |-> PointNew(points[i], fill_char)]

NoAppend == [done |-> FALSE]
NoQuery  == [done |-> FALSE]

InitPixel ==
    /\ pixels = << >>
    /\ source = << >>
    /\ opLog = << >>
    /\ appended = NoAppend
    /\ queried = NoQuery

CanCall == Len(opLog) < MaxOps

\* The caller builds a Vec<Point> of its own.
FillSource ==
    /\ \E v \in VecSet : v # source /\ source' = v
    /\ appended' = NoAppend
    /\ UNCHANGED <<pixels, opLog, queried>>
    /\ UNCHANGED otherPixelVars

PixelPush ==
    /\ CanCall
    /\ \E p \in PointSet :
         /\ pixels' = VecPush(pixels, p)
         /\ opLog' = Append(opLog, [op |-> "push", arg |-> p])
    /\ appended' = NoAppend
    /\ queried' = NoQuery
    /\ UNCHANGED source
    /\ UNCHANGED otherPixelVars

PixelAppend ==
    /\ CanCall
    /\ LET r == VecAppend(pixels, source) IN
         /\ pixels' = r.self
         /\ source' = r.other
    /\ opLog' = Append(opLog, [op |-> "append", arg |-> source])
    /\ appended' = [done |-> TRUE, dst |-> pixels, src |-> source]
    /\ queried' = NoQuery
    /\ UNCHANGED otherPixelVars

PixelAppendPoints ==
    /\ CanCall
    /\ \E points \in {<<<<0, 0>>, <<1, 0>>>>}, fill_char \in ColCharSet :
         /\ pixels' = VecAppend(pixels, PointsToPixels(points, fill_char)).self
         /\ opLog' = Append(opLog, [op |-> "append_points",
                                    arg |-> [points |-> points, fill_char |-> fill_char]])
    /\ appended' = NoAppend
    /\ queried' = NoQuery
    /\ UNCHANGED source
    /\ UNCHANGED otherPixelVars

PixelPlot ==
    /\ CanCall
    /\ \E pos \in Vec2DSet, c \in ColCharSet :
         /\ pixels' = VecPush(pixels, PointNew(pos, c))
         /\ opLog' = Append(opLog, [op |-> "plot", arg |-> [pos |-> pos, c |-> c]])
    /\ appended' = NoAppend
    /\ queried' = NoQuery
    /\ UNCHANGED source
    /\ UNCHANGED otherPixelVars

PixelBlit ==
    /\ CanCall
    /\ \E element \in ElementSet :
         /\ pixels' = VecAppend(pixels, ActivePixels(element)).self
         /\ opLog' = Append(opLog, [op |-> "blit", arg |-> element])
    /\ appended' = NoAppend
    /\ queried' = NoQuery
    /\ UNCHANGED source
    /\ UNCHANGED otherPixelVars

PixelQuery ==
    /\ ~queried.done
    /\ queried' = [done |-> TRUE, out |-> ActivePixels(PixelContainerOf(pixels))]
    /\ UNCHANGED <<pixels, source, opLog, appended>>
    /\ UNCHANGED otherPixelVars

NextPixel ==
    \/ FillSource
    \/ PixelPush
    \/ PixelAppend
    \/ PixelAppendPoints
    \/ PixelPlot
    \/ PixelBlit
    \/ PixelQuery

(***************************************************************************)
(* VisibilityToggle.                                                       *)
(***************************************************************************)
InitToggle ==
    /\ tElement \in ElementSet
    /\ tVisible \in BOOLEAN
    /\ tHist = <<tVisible>>
    /\ tQuery = NoQuery

\* toggle.visible = b (the field is pub)
ToggleSetVisible ==
    /\ Len(tHist) <= MaxToggles
    /\ \E b \in BOOLEAN :
         /\ tVisible' = b
         /\ tHist' = Append(tHist, b)
    /\ UNCHANGED <<tElement, tQuery>>
    /\ UNCHANGED otherToggleVars

\* toggle.element.push(p) on a wrapped PixelContainer (the field is pub)
ToggleElementPush ==
    /\ tElement.kind = "PixelContainer"
    /\ Len(tElement.pixels) < MaxWrapped
    /\ \E p \in PointSet :
         tElement' = PixelContainerOf(VecPush(tElement.pixels, p))
    /\ UNCHANGED <<tVisible, tHist, tQuery>>
    /\ UNCHANGED otherToggleVars

ToggleQuery ==
    /\ tQuery' = [done |-> TRUE,
                  out |-> ActivePixels(VisibilityToggleNew(tElement, tVisible)),
                  visible |-> tVisible,
                  element |-> tElement,
                  at |-> Len(tHist)]
    /\ tQuery' # tQuery
    /\ UNCHANGED <<tElement, tVisible, tHist>>
    /\ UNCHANGED otherToggleVars

NextToggle ==
    \/ ToggleSetVisible
    \/ ToggleElementPush
    \/ ToggleQuery

(***************************************************************************)
(* CollisionContainer.                                                     *)
(***************************************************************************)
Vec2DZERO == <<0, 0>>

\* <Vec2D as Add>::add
Vec2DAdd(a, b) == <<a[1] + b[1], a[2] + b[2]>>

\* utils::pixels_to_points: the position of each point, the style dropped
PixelsToPoints(ps) == [i \in 1..Len(ps) |-> ps[i].pos]

\* Vec::contains
Contains(s, x) == \E i \in 1..Len(s) : s[i] = x

\* The for loop of will_overlap_element, with its early return.
RECURSIVE OverlapLoop(_, _, _)
OverlapLoop(collision_pixels, element_pixels, offset) ==
    IF element_pixels = << >> THEN FALSE
    ELSE IF Contains(collision_pixels, Vec2DAdd(Head(element_pixels), offset)) THEN TRUE
    ELSE OverlapLoop(collision_pixels, Tail(element_pixels), offset)

\* A mutant: the offset is never applied.
WillOverlapWithoutOffset(elements, element, offset) ==
    OverlapLoop(PixelsToPoints(CollisionActive(CollisionContainerOf(elements))),
                PixelsToPoints(ActivePixels(element)), Vec2DZERO)

\* CollisionContainer::will_overlap_element
WillOverlapElement(elements, element, offset) ==
    OverlapLoop(PixelsToPoints(CollisionActive(CollisionContainerOf(elements))),
                PixelsToPoints(ActivePixels(element)), offset)

\* CollisionContainer::overlaps_element
OverlapsElement(elements, element) == WillOverlapElement(elements, element, Vec2DZERO)

\* The elements tested against the container, and the offsets tried.
CandidateSet == ElementSet \cup {PixelContainerOf(<<P3>>)}
OffsetSet == {<<0, 0>>, <<1, 0>>, <<-1, 0>>, <<5, 5>>}

NoCall == [done |-> FALSE]

\* CollisionContainer::new, or From<Vec<&dyn ViewElement>>
InitCollision ==
    /\ cElements \in {<< >>, <<PixelContainerOf(<<P1, P2>>)>>}
    /\ cCall = NoCall

CollisionPush ==
    /\ Len(cElements) < MaxPushed
    /\ \E element \in ElementSet : cElements' = Append(cElements, element)
    /\ UNCHANGED cCall
    /\ UNCHANGED otherCollisionVars

CallWillOverlap ==
    /\ \E element \in CandidateSet, offset \in OffsetSet :
         cCall' = [done |-> TRUE, fn |-> "will_overlap_element",
                   elements |-> cElements, element |-> element, offset |-> offset,
                   result |-> WillOverlapElement(cElements, element, offset)]
    /\ cCall' # cCall
    /\ UNCHANGED cElements
    /\ UNCHANGED otherCollisionVars

CallOverlaps ==
    /\ \E element \in CandidateSet :
         cCall' = [done |-> TRUE, fn |-> "overlaps_element",
                   elements |-> cElements, element |-> element, offset |-> Vec2DZERO,
                   result |-> OverlapsElement(cElements, element)]
    /\ cCall' # cCall
    /\ UNCHANGED cElements
    /\ UNCHANGED otherCollisionVars

NextCollision ==
    \/ CollisionPush
    \/ CallWillOverlap
    \/ CallOverlaps

(***************************************************************************)
(* ColChar: the emission of one cell, given its neighbours' modifiers.     *)
(* An Option<Modifier> is << >> for None and <<m>> for Some(m). Output is  *)
(* a sequence of tokens: a text character, or one escape code.             *)
(***************************************************************************)
OptNone == << >>
Some(m) == <<m>>

CodeEND  == "ESC[0m"
CodeRed  == "ESC[38;2;255;0;0m"
CodeBlue == "ESC[38;2;0;0;255m"
CharSet == {"a", "b"}

\* <Modifier as Display>::fmt: None writes nothing, END the reset code, a
\* colour its own code
ModifierDisplay(m) ==
    CASE m = ModNone -> << >>
      [] m = ModEND  -> <<CodeEND>>
      [] m = "Red"   -> <<CodeRed>>
      [] m = "Blue"  -> <<CodeBlue>>

\* write!(f, "{}{}{}", modifier, self.text_char, end)
WriteFmt(args) ==
    ModifierDisplay(args.modifier) \o <<args.text_char>> \o ModifierDisplay(args.end)

\* A mutant: the two tests are swapped, the start code depending on the next
\* cell and the end code on the previous one.
WithPrevAndNextSwapped(self, prev_mod, next_mod) ==
    [modifier  |-> IF next_mod = Some(self.modifier) THEN ModNone ELSE self.modifier,
     text_char |-> self.text_char,
     end       |-> IF prev_mod = Some(self.modifier) THEN ModNone ELSE ModEND]

\* A mutant: the end code is kept although the next cell shares the modifier.
WithPrevAndNextKeepingEnd(self, prev_mod, next_mod) ==
    [modifier  |-> IF prev_mod = Some(self.modifier) THEN ModNone ELSE self.modifier,
     text_char |-> self.text_char,
     end       |-> ModEND]

\* A mutant: a missing neighbour counts as one with the same modifier.
WithPrevAndNextAbsentAsSame(self, prev_mod, next_mod) ==
    [modifier  |-> IF prev_mod \in {OptNone, Some(self.modifier)}
                   THEN ModNone ELSE self.modifier,
     text_char |-> self.text_char,
     end       |-> IF next_mod \in {OptNone, Some(self.modifier)}
                   THEN ModNone ELSE ModEND]

\* ColChar::display_with_prev_and_next: the three values it hands to write!
DisplayWithPrevAndNext(self, prev_mod, next_mod) ==
    [modifier  |-> IF prev_mod = Some(self.modifier) THEN ModNone ELSE self.modifier,
     text_char |-> self.text_char,
     end       |-> IF next_mod = Some(self.modifier) THEN ModNone ELSE ModEND]

\* ColChar::write_with_prev_and_next: the three values it hands to write!
WriteWithPrevAndNext(self, prev_mod, next_mod) ==
    [modifier  |-> IF prev_mod = Some(self.modifier) THEN ModNone ELSE self.modifier,
     text_char |-> self.text_char,
     end       |-> IF next_mod = Some(self.modifier) THEN ModNone ELSE ModEND]

\* The cells of a line and the lines rendered.
CellSet == {ColCharNew(c, m) : c \in CharSet, m \in ModifierSet}
LineSet == UNION {[1..n -> CellSet] : n \in 0..MaxLine}

\* The modifiers the renderer passes for cell i: those of its true
\* neighbours, none at the ends of the line.
PrevMod(l, i) == IF i > 1 THEN Some(l[i - 1].modifier) ELSE OptNone
NextMod(l, i) == IF i < Len(l) THEN Some(l[i + 1].modifier) ELSE OptNone

InitEmit ==
    /\ line \in LineSet
    /\ fIdx = 0
    /\ fCalls = << >>
    /\ fOut = << >>
    /\ oIdx = 0
    /\ oCalls = << >>
    /\ oOut = << >>

\* The renderer emits the next cell into the Formatter.
EmitDisplay ==
    /\ fIdx < Len(line)
    /\ LET i == fIdx + 1
           args == DisplayWithPrevAndNext(line[i], PrevMod(line, i), NextMod(line, i))
       IN /\ fIdx' = i
          /\ fCalls' = Append(fCalls, args)
          /\ fOut' = fOut \o WriteFmt(args)
    /\ UNCHANGED <<line, oIdx, oCalls, oOut>>
    /\ UNCHANGED otherEmitVars

\* The renderer emits the next cell into the String.
EmitWrite ==
    /\ oIdx < Len(line)
    /\ LET i == oIdx + 1
           args == WriteWithPrevAndNext(line[i], PrevMod(line, i), NextMod(line, i))
       IN /\ oIdx' = i
          /\ oCalls' = Append(oCalls, args)
          /\ oOut' = oOut \o WriteFmt(args)
    /\ UNCHANGED <<line, fIdx, fCalls, fOut>>
    /\ UNCHANGED otherEmitVars

NextEmit ==
    \/ EmitDisplay
    \/ EmitWrite

\* The terminal: an escape code sets the active modifier (the reset code
\* clears it) and a character is painted under the active one.
CodeModifier(token) ==
    CASE token = CodeEND  -> ModNone
      [] token = CodeRed  -> "Red"
      [] token = CodeBlue -> "Blue"

RECURSIVE PaintFrom(_, _, _)
PaintFrom(tokens, active, painted) ==
    IF tokens = << >> THEN [cells |-> painted, active |-> active]
    ELSE IF Head(tokens) \in CharSet
         THEN PaintFrom(Tail(tokens), active, Append(painted, <<Head(tokens), active>>))
         ELSE PaintFrom(Tail(tokens), CodeModifier(Head(tokens)), painted)

Paint(tokens) == PaintFrom(tokens, ModNone, << >>)

\* start code, character, end code for every cell
RECURSIVE Unconditional(_)
Unconditional(l) ==
    IF l = << >> THEN << >>
    ELSE ModifierDisplay(Head(l).modifier) \o <<Head(l).text_char>>
         \o ModifierDisplay(ModEND) \o Unconditional(Tail(l))

(***************************************************************************)
(* Transform3D. A Vec3D is a triple; its components are modelled by        *)
(* integers and an angle by a whole number of quarter turns, so that every *)
(* sine and cosine is an integer.                                          *)
(***************************************************************************)
Vec3DZERO == <<0, 0, 0>>
Vec3DONE  == <<1, 1, 1>>

\* <Vec3D as Add>::add and <Vec3D as Mul>::mul, componentwise
Vec3DAdd(a, b) == <<a[1] + b[1], a[2] + b[2], a[3] + b[3]>>
Vec3DMul(a, b) == <<a[1] * b[1], a[2] * b[2], a[3] * b[3]>>

Sin(k) == CASE k % 4 = 0 -> 0 [] k % 4 = 1 -> 1 [] k % 4 = 2 -> 0 [] k % 4 = 3 -> -1
Cos(k) == Sin(k + 1)

\* CachedRotation3D::new: the six sines and cosines, computed once
CachedRotation3DNew(rotation) ==
    [sin_x |-> Sin(rotation[1]), cos_x |-> Cos(rotation[1]),
     sin_y |-> Sin(rotation[2]), cos_y |-> Cos(rotation[2]),
     sin_z |-> Sin(rotation[3]), cos_z |-> Cos(rotation[3])]

\* CachedRotation3D::rotate: about the X axis, then Y, then Z
CachedRotate(r, value) ==
    LET vx == <<value[1],
                value[2] * r.cos_x - value[3] * r.sin_x,
                value[2] * r.sin_x + value[3] * r.cos_x>>
        vy == <<vx[1] * r.cos_y + vx[3] * r.sin_y,
                vx[2],
                vx[3] * r.cos_y - vx[1] * r.sin_y>>
    IN <<vy[1] * r.cos_z - vy[2] * r.sin_z,
         vy[1] * r.sin_z + vy[2] * r.cos_z,
         vy[3]>>

\* Transform3D::new_trs
NewTrs(translation, rotation, scale) ==
    [translation |-> translation, rotation |-> rotation, scale |-> scale]

\* Transform3D::DEFAULT
TransformDEFAULT == NewTrs(Vec3DZERO, Vec3DZERO, Vec3DONE)

\* A mutant: translate, then scale, then rotate.
ApplyToTranslatingFirst(self, vertices) ==
    LET rotation == CachedRotation3DNew(self.rotation) IN
    [i \in 1..Len(vertices) |->
        CachedRotate(rotation, Vec3DMul(Vec3DAdd(vertices[i], self.translation), self.scale))]

\* Transform3D::apply_to
ApplyTo(self, vertices) ==
    LET rotation == CachedRotation3DNew(self.rotation) IN
    [i \in 1..Len(vertices) |->
        LET rhs0 == vertices[i]
            rhs1 == Vec3DMul(rhs0, self.scale)
            rhs2 == CachedRotate(rotation, rhs1)
            rhs3 == Vec3DAdd(rhs2, self.translation)
        IN rhs3]

\* A mutant: a true affine composition, the right translation carried
\* through the left scale.
TransformMulAffine(self, rhs) ==
    NewTrs(Vec3DAdd(self.translation, Vec3DMul(self.scale, rhs.translation)),
           Vec3DAdd(self.rotation, rhs.rotation),
           Vec3DMul(self.scale, rhs.scale))

\* <Transform3D as Mul<Transform3D>>::mul
TransformMul(self, rhs) ==
    NewTrs(Vec3DAdd(self.translation, rhs.translation),
           Vec3DAdd(self.rotation, rhs.rotation),
           Vec3DMul(self.scale, rhs.scale))

\* Transform3D::rotate
TransformRotate(self, value) == CachedRotate(CachedRotation3DNew(self.rotation), value)

\* <Transform3D as Mul<Vec3D>>::mul
TransformMulVec(self, rhs) ==
    LET rhs1 == Vec3DMul(rhs, self.scale)
        rhs2 == TransformRotate(self, rhs1)
    IN Vec3DAdd(rhs2, self.translation)

\* The transforms and vertex batches a caller builds.
TranslationSet == {Vec3DZERO, <<1, 0, 0>>, <<0, 2, -1>>}
RotationSet    == {Vec3DZERO, <<1, 0, 0>>, <<0, 1, 2>>}
ScaleSet       == {Vec3DONE, <<2, 2, 2>>, <<2, 1, -1>>}
TransformSet ==
    {NewTrs(t, r, s) : t \in TranslationSet, r \in RotationSet, s \in ScaleSet}
VertexSet == {<<1, 1, 1>>, <<0, 0, 0>>, <<1, 2, 3>>}
BatchSet == UNION {[1..n -> VertexSet] : n \in 0..MaxVerts}

InitTransform == trCall = NoCall

CallApplyTo ==
    /\ ~trCall.done
    /\ \E self \in TransformSet, vertices \in BatchSet :
         trCall' = [done |-> TRUE, fn |-> "apply_to", self |-> self,
                    vertices |-> vertices, out |-> ApplyTo(self, vertices)]
    /\ UNCHANGED otherTransformVars

CallMul ==
    /\ ~trCall.done
    /\ \E a \in TransformSet, b \in TransformSet :
         trCall' = [done |-> TRUE, fn |-> "mul", a |-> a, b |-> b,
                    ab |-> TransformMul(a, b), ba |-> TransformMul(b, a)]
    /\ UNCHANGED otherTransformVars

CallMulVec ==
    /\ ~trCall.done
    /\ \E self \in TransformSet, v \in VertexSet :
         trCall' = [done |-> TRUE, fn |-> "mul_vec", self |-> self, v |-> v,
                    out |-> TransformMulVec(self, v)]
    /\ UNCHANGED otherTransformVars

NextTransform ==
    \/ CallApplyTo
    \/ CallMul
    \/ CallMulVec

(***************************************************************************)
(* The specifications, one per part.                                       *)
(***************************************************************************)
\* A part that is not exercised: freshly constructed, nothing called.
IdlePixel == InitPixel
IdleToggle ==
    /\ tElement = PixelContainerOf(<< >>)
    /\ tVisible = TRUE
    /\ tHist = <<TRUE>>
    /\ tQuery = NoQuery
IdleCollision == cElements = << >> /\ cCall = NoCall
IdleEmit ==
    /\ line = << >>
    /\ fIdx = 0 /\ fCalls = << >> /\ fOut = << >>
    /\ oIdx = 0 /\ oCalls = << >> /\ oOut = << >>
IdleTransform == InitTransform

InitSpecPixel ==
    InitPixel /\ IdleToggle /\ IdleCollision /\ IdleEmit /\ IdleTransform
InitSpecToggle ==
    IdlePixel /\ InitToggle /\ IdleCollision /\ IdleEmit /\ IdleTransform
InitSpecCollision ==
    IdlePixel /\ IdleToggle /\ InitCollision /\ IdleEmit /\ IdleTransform
InitSpecEmit ==
    IdlePixel /\ IdleToggle /\ IdleCollision /\ InitEmit /\ IdleTransform
InitSpecTransform ==
    IdlePixel /\ IdleToggle /\ IdleCollision /\ IdleEmit /\ InitTransform

SpecPixel     == InitSpecPixel /\ [][NextPixel]_vars
SpecToggle    == InitSpecToggle /\ [][NextToggle]_vars
SpecCollision == InitSpecCollision /\ [][NextCollision]_vars
SpecEmit      == InitSpecEmit /\ [][NextEmit]_vars
SpecTransform == InitSpecTransform /\ [][NextTransform]_vars

(***************************************************************************)
(* Properties of PixelContainer (under SpecPixel).                         *)
(***************************************************************************)
\* The points one logged call contributes, from its arguments.
Contribution(call) ==
    CASE call.op = "push"          -> <<call.arg>>
      [] call.op = "plot"          -> <<[pos |-> call.arg.pos, fill_char |-> call.arg.c]>>
      [] call.op = "append"        -> call.arg
      [] call.op = "append_points" ->
             [i \in 1..Len(call.arg.points) |->
                 [pos |-> call.arg.points[i], fill_char |-> call.arg.fill_char]]
      [] call.op = "blit"          -> ActivePixels(call.arg)

RECURSIVE Inserted(_)
Inserted(log) ==
    IF log = << >> THEN << >> ELSE Contribution(Head(log)) \o Inserted(Tail(log))

RECURSIVE SumOfCounts(_)
SumOfCounts(log) ==
    IF log = << >> THEN 0 ELSE Len(ActivePixels(Head(log).arg)) + SumOfCounts(Tail(log))

OnlyBlits == \A i \in 1..Len(opLog) : opLog[i].op = "blit"

\* C1: a container that starts empty and is built by blitting children
\* C1..Cn in that order holds exactly the concatenation of the children's
\* active pixels, in that order, and so as many points as the children's
\* counts add up to.
C1_BlitConcatenation ==
    OnlyBlits =>
        /\ ActivePixels(PixelContainerOf(pixels)) = Inserted(opLog)
        /\ Len(ActivePixels(PixelContainerOf(pixels))) = SumOfCounts(opLog)

C1_Witness ==
    /\ OnlyBlits
    /\ Len(opLog) = 3
    /\ opLog[1].arg = PixelContainerOf(<<P2, P3>>)
    /\ opLog[2].arg = VisibilityToggleNew(PixelContainerOf(<<P2>>), FALSE)
    /\ opLog[3].arg = VisibilityToggleNew(PixelContainerOf(<<P3, P1>>), TRUE)
    /\ pixels = <<P2, P3, P3, P1>>

\* C4: append moves the source in: afterwards the source is empty, the
\* destination is as long as both were together, its old points are its
\* prefix, unchanged, and its new tail is the source's old content in order.
C4_AppendTransfers ==
    appended.done =>
        /\ source = << >>
        /\ Len(pixels) = Len(appended.dst) + Len(appended.src)
        /\ SubSeq(pixels, 1, Len(appended.dst)) = appended.dst
        /\ SubSeq(pixels, Len(appended.dst) + 1, Len(pixels)) = appended.src

C4_Witness ==
    /\ appended.done
    /\ appended.dst = <<P1, P3>>
    /\ appended.src = <<P2, P1>>
    /\ pixels = <<P1, P3, P2, P1>>

\* C10: after any sequence of push, plot, append (append_points) and blit
\* calls the container holds, and active_pixels() returns, exactly the points
\* inserted so far in insertion order; the query leaves the list as it was.
C10_InsertionOrder ==
    /\ pixels = Inserted(opLog)
    /\ queried.done => queried.out = Inserted(opLog) /\ queried.out = pixels

C10_Witness ==
    /\ queried.done
    /\ Len(opLog) = 3
    /\ opLog[1].op = "blit" /\ opLog[2].op = "push" /\ opLog[3].op = "append"
    /\ queried.out = <<P3, P1, P2, P2, P1>>

(***************************************************************************)
(* Properties of VisibilityToggle (under SpecToggle).                      *)
(***************************************************************************)
\* C2: whatever the flag has been, a query returns nothing when the flag is
\* false at that moment and the wrapped element's active pixels when it is
\* true; so after true -> false -> true the query returns the element's
\* output again, nothing of the false state being kept.
C2_ToggleReflectsFlag ==
    tQuery.done =>
        tQuery.out = IF tQuery.visible THEN ActivePixels(tQuery.element) ELSE << >>

C2_Witness ==
    /\ tQuery.done
    /\ tQuery.at = 3
    /\ tHist = <<TRUE, FALSE, TRUE>>
    /\ tQuery.element = tElement
    /\ tQuery.out = <<P2, P3>>

(***************************************************************************)
(* Properties of CollisionContainer (under SpecCollision).                 *)
(***************************************************************************)
PositionsOf(ps) == {ps[i].pos : i \in 1..Len(ps)}

HeldPositions(elements) ==
    UNION {PositionsOf(ActivePixels(elements[i])) : i \in 1..Len(elements)}

Meets(elements, element, offset) ==
    \E p \in PositionsOf(ActivePixels(element)), q \in HeldPositions(elements) :
        p[1] + offset[1] = q[1] /\ p[2] + offset[2] = q[2]

\* C3: will_overlap_element is true exactly when some active position of
\* the candidate, moved by the offset, is an active position of an element
\* the container holds, styles ignored; overlaps_element is that test with
\* the offset (0,0).
C3_OverlapExact ==
    cCall.done =>
        /\ cCall.result <=> Meets(cCall.elements, cCall.element, cCall.offset)
        /\ cCall.fn = "overlaps_element" =>
               (cCall.result <=> Meets(cCall.elements, cCall.element, <<0, 0>>))

\* The spec's example: positions (0,0) and (1,0) held, a candidate at (1,0)
\* in another style; the query with offset (5,5) answers false.
C3_Witness ==
    /\ cCall.done
    /\ cCall.fn = "will_overlap_element"
    /\ HeldPositions(cCall.elements) = {<<0, 0>>, <<1, 0>>}
    /\ cCall.element = PixelContainerOf(<<P3>>)
    /\ P3 \notin UNION {{ActivePixels(cCall.elements[i])[j] :
                            j \in 1..Len(ActivePixels(cCall.elements[i]))} :
                        i \in 1..Len(cCall.elements)}
    /\ cCall.offset = <<5, 5>>
    /\ cCall.result = FALSE

(***************************************************************************)
(* Properties of the emission (under SpecEmit).                            *)
(***************************************************************************)
\* C5: once a whole line is emitted, a terminal paints every character
\* under the modifier it would have with start code, character and end code
\* emitted for every cell, and no modifier is left active.
C5_ElisionKeepsAppearance ==
    /\ fIdx = Len(line) =>
           Paint(fOut) = Paint(Unconditional(line)) /\ Paint(fOut).active = ModNone
    /\ oIdx = Len(line) =>
           Paint(oOut) = Paint(Unconditional(line)) /\ Paint(oOut).active = ModNone

C5_Witness ==
    /\ Len(line) = 3
    /\ fIdx = 3 /\ oIdx = 3
    /\ line[1].modifier = "Red" /\ line[2].modifier = "Red" /\ line[3].modifier = "Blue"
    /\ Len(oOut) < Len(Unconditional(line))
    /\ Len(fOut) < Len(Unconditional(line))

SharedRunOfThree ==
    /\ Len(line) = 3
    /\ line[2].modifier = line[1].modifier
    /\ line[3].modifier = line[1].modifier

RunOutput ==
    ModifierDisplay(line[1].modifier)
    \o <<line[1].text_char, line[2].text_char, line[3].text_char>>
    \o ModifierDisplay(ModEND)

RunArgs(calls) ==
    /\ calls[1].modifier = line[1].modifier
    /\ calls[2].modifier = ModNone
    /\ calls[3].modifier = ModNone
    /\ calls[1].end = ModNone
    /\ calls[2].end = ModNone
    /\ calls[3].end = ModEND

\* C6: three cells sharing one modifier, the first with no previous and the
\* last with no next, give the start code once, before the first character,
\* the end code once, after the last, no code in between, and the three
\* characters once each in order.
C6_RunOfThree ==
    /\ SharedRunOfThree /\ fIdx = 3 => fOut = RunOutput /\ RunArgs(fCalls)
    /\ SharedRunOfThree /\ oIdx = 3 => oOut = RunOutput /\ RunArgs(oCalls)

C6_Witness ==
    /\ SharedRunOfThree
    /\ fIdx = 3 /\ oIdx = 3
    /\ line[1].modifier = "Red"
    /\ oOut = <<CodeRed, "a", "b", "a", CodeEND>>
    /\ fOut = oOut

BothCodes(calls, i) ==
    calls[i].modifier = line[i].modifier /\ calls[i].end = ModEND

\* C7 as stated: a cell with no previous or with no next modifier emits both
\* its start code and its end code, whatever its one neighbour's modifier is.
C7_BoundaryEmitsBoth ==
    /\ \A i \in 1..fIdx : (i = 1 \/ i = Len(line)) => BothCodes(fCalls, i)
    /\ \A i \in 1..oIdx : (i = 1 \/ i = Len(line)) => BothCodes(oCalls, i)

BoundarySide(calls, i) ==
    /\ i = 1 => calls[i].modifier = line[i].modifier
    /\ i = Len(line) => calls[i].end = ModEND
    /\ i > 1 => calls[i].modifier =
                   IF line[i - 1].modifier = line[i].modifier
                   THEN ModNone ELSE line[i].modifier
    /\ i < Len(line) => calls[i].end =
                   IF line[i + 1].modifier = line[i].modifier
                   THEN ModNone ELSE ModEND

\* C7 as amended: a cell with no previous modifier emits its start code and
\* a cell with no next modifier emits its end code; on the side of an
\* existing neighbour the code is suppressed exactly when that neighbour has
\* the cell's modifier.
C7_BoundarySideEmitted ==
    /\ \A i \in 1..fIdx : BoundarySide(fCalls, i)
    /\ \A i \in 1..oIdx : BoundarySide(oCalls, i)

C7_Witness ==
    /\ Len(line) = 2
    /\ fIdx = 2 /\ oIdx = 2
    /\ line[1].modifier = "Blue" /\ line[2].modifier = "Blue"
    /\ oCalls[1].modifier = "Blue" /\ oCalls[1].end = ModNone
    /\ oCalls[2].modifier = ModNone /\ oCalls[2].end = ModEND
    /\ fCalls = oCalls

(***************************************************************************)
(* Properties of Transform3D (under SpecTransform).                        *)
(***************************************************************************)
ScaleRotateTranslate(t, v) ==
    LET s == <<v[1] * t.scale[1], v[2] * t.scale[2], v[3] * t.scale[3]>>
        r == CachedRotate(CachedRotation3DNew(t.rotation), s)
    IN <<r[1] + t.translation[1], r[2] + t.translation[2], r[3] + t.translation[3]>>

ScaleTranslate(t, v) ==
    <<v[1] * t.scale[1] + t.translation[1],
      v[2] * t.scale[2] + t.translation[2],
      v[3] * t.scale[3] + t.translation[3]>>

\* C8: apply_to returns as many vertices as it is given, in order, each the
\* image of its vertex under scale, then rotate, then translate; with no
\* rotation that is v * scale + translation, so translation (1,0,0) and
\* scale (2,2,2) take (1,1,1) to (3,2,2), and DEFAULT changes nothing.
C8_ApplyToOrder ==
    trCall.done /\ trCall.fn = "apply_to" =>
        /\ Len(trCall.out) = Len(trCall.vertices)
        /\ \A i \in 1..Len(trCall.vertices) :
               /\ trCall.out[i] = ScaleRotateTranslate(trCall.self, trCall.vertices[i])
               /\ trCall.self.rotation = <<0, 0, 0>> =>
                      trCall.out[i] = ScaleTranslate(trCall.self, trCall.vertices[i])
               /\ ( /\ trCall.self = [translation |-> <<1, 0, 0>>,
                                      rotation |-> <<0, 0, 0>>, scale |-> <<2, 2, 2>>]
                    /\ trCall.vertices[i] = <<1, 1, 1>> )
                  => trCall.out[i] = <<3, 2, 2>>
        /\ trCall.self = TransformDEFAULT => trCall.out = trCall.vertices

C8_Witness ==
    /\ trCall.done /\ trCall.fn = "apply_to"
    /\ trCall.self = [translation |-> <<1, 0, 0>>,
                      rotation |-> <<0, 0, 0>>, scale |-> <<2, 2, 2>>]
    /\ trCall.vertices = <<<<1, 1, 1>>, <<1, 2, 3>>>>
    /\ trCall.out = <<<<3, 2, 2>>, <<3, 4, 6>>>>

\* C9: A * B and B * A are the same transform, field by field: the
\* translations added, the rotations added and the scales multiplied,
\* component by component.
C9_MulCommutes ==
    trCall.done /\ trCall.fn = "mul" =>
        /\ trCall.ab = trCall.ba
        /\ \A k \in 1..3 :
               /\ trCall.ab.translation[k] =
                      trCall.a.translation[k] + trCall.b.translation[k]
               /\ trCall.ab.rotation[k] = trCall.a.rotation[k] + trCall.b.rotation[k]
               /\ trCall.ab.scale[k] = trCall.a.scale[k] * trCall.b.scale[k]

C9_Witness ==
    /\ trCall.done /\ trCall.fn = "mul"
    /\ trCall.a = [translation |-> <<0, 2, -1>>, rotation |-> <<1, 0, 0>>,
                   scale |-> <<2, 2, 2>>]
    /\ trCall.b = [translation |-> <<1, 0, 0>>, rotation |-> <<0, 1, 2>>,
                   scale |-> <<2, 1, -1>>]
    /\ trCall.ab = [translation |-> <<1, 2, -1>>, rotation |-> <<1, 1, 2>>,
                    scale |-> <<4, 2, -2>>]

====
